---- MODULE Spec2Model ----
(***************************************************************************)
(* Flow-control windows of tor-proto (circuit/sendme.rs): SendWindow<P,T>, *)
(* shared behind a futures::lock::Mutex by the tasks that send cells       *)
(* (take) and the reactor that receives SENDME cells (put).                *)
(***************************************************************************)
EXTENDS Integers, Sequences, FiniteSets, TLC

\* ---------------------------------------------------------------- bounds
\* Number of tasks holding a handle (new_ref) on which take is called.
NumTakers == 2
\* Number of distinct CircTag values the callers pass to take/put.
NumTags == 2
\* Largest initial window of a freely driven window, in increments.
MaxInitIncs == 1
\* Cells the scripted sender goes on to send beyond the first `maximum`.
ExtraCells == 2
\* Data cells in flight from the sender to the receiver at any one time.
MaxInFlight == 2

\* ------------------------------------------------------- program constants
\* window: u16
U16Max == 65535

Policies == {"Circ", "Stream"}

\* WindowParams::maximum for CircParams and StreamParams.
maximum(p) == IF p = "Circ" THEN 1000 ELSE 500

\* WindowParams::increment for CircParams and StreamParams.
increment(p) == IF p = "Circ" THEN 100 ELSE 50

\* u16::checked_sub: -1 stands for the None of an underflow.
checked_sub_strict(a, b) == IF a > b THEN a - b ELSE -1

checked_sub(a, b) == IF a >= b THEN a - b ELSE -1

\* u16::checked_add: -1 stands for the None of an overflow.
checked_add(a, b) == IF a + b <= U16Max THEN a + b ELSE -1

\* ------------------------------------------------------------------ state
VARIABLES
    P,          \* the window's policy type parameter
    window,     \* SendWindowInner.window
    tags,       \* SendWindowInner.tags (front of the VecDeque is index 1)
    unblock,    \* SendWindowInner.unblock: Option<oneshot::Sender<()>>
    st,         \* per task: where its take future stands
    arg,        \* per task: the tag of its take in progress
    last,       \* the last call that ran and what it returned
    initial,    \* the window passed to SendWindow::new
    scenario,   \* TRUE: one sender that tags its k-th cell k / increment
    sent,       \* scripted sender: number of take calls that have returned
    hist,       \* whether any put has run, and whether any was rejected
    rw,         \* a RecvWindow<P> and the last call made on it
    pp,         \* a directory, an ExitPathBuilder and its pick_path call
    bc,         \* a TorPath and its build_circuit call
    cd,         \* a Vec<u8> writer, a Reader over it and the items coded
    handles,    \* the live handles on the SendWindow's Arc
    waker,      \* tasks whose receiver has been polled and holds their waker
    chan        \* cells and SENDMEs in flight between the two windows

vars ==
    <<P, window, tags, unblock, st, arg, last, initial, scenario, sent, hist,
      rw, pp, bc, cd, handles, waker, chan>>

\* The SendWindow and its callers.
sendVars == <<window, tags, unblock, st, arg, last, initial, scenario, sent, hist>>

\* Everything but the SendWindow.
otherVars == <<rw, pp, bc, cd, handles, chan>>

\* The handles on the window and the link it is used over.
linkVars == <<handles, waker, chan>>

\* Values of the parts a specification does not exercise.
RwOff == [window |-> 0, owed |-> 0, k |-> 0, op |-> "off", n |-> 0, ret |-> "off"]
PpOff == [pc |-> "off"]
BcOff == [pc |-> "off"]
CdOff == [pc |-> "off"]
ChanOff == [pc |-> "off"]

Takers == 1..NumTakers

\* The reactor's handle, on which put is called.
Reactor == 0

\* One handle per sending task (new_ref) and the reactor's.
AllHandles == Takers \cup {Reactor}

\* Every handle is alive and the window is driven directly.
LinkOff ==
    /\ handles = AllHandles
    /\ waker = {}
    /\ chan = ChanOff

\* Option<T>::None for a tag; tags themselves are naturals.
NoneTag == -1

\* unblock: None, or Some(sender). rx names the task whose take holds the
\* paired oneshot::Receiver; rx = 0 when that receiver has been dropped.
NoSender == [some |-> FALSE, rx |-> 0]
Sender(t) == [some |-> TRUE, rx |-> t]
StaleSender == [some |-> TRUE, rx |-> 0]

\* What a call returned.
Ret(k, v) == [k |-> k, v |-> v]
Last(op, t, tag, ret) == [op |-> op, t |-> t, tag |-> tag, ret |-> ret]

\* CircSendWindow = SendWindow<CircParams, CircTag>;
\* StreamSendWindow = SendWindow<StreamParams, NoTag> (the unit tag, 0).
TagSet(p) == IF p = "Circ" THEN 1..NumTags ELSE {0}

\* The scripted sender's tag for its k-th cell.
ScenarioTag(p, k) == k \div increment(p)

\* Tags a SENDME may carry.
PutTags(p, scen) ==
    {NoneTag} \cup (IF scen THEN 0..(maximum(p) \div increment(p)) ELSE TagSet(p))

\* Initial windows handed to SendWindow::new.
InitWindows(p, scen) ==
    IF scen
    THEN {maximum(p)}
    ELSE {i * increment(p) : i \in 0..MaxInitIncs} \cup {increment(p) - 1}

\* SendWindow::new
new(w) ==
    /\ window = w
    /\ tags = <<>>
    /\ unblock = NoSender

Init ==
    /\ P \in Policies
    /\ scenario \in BOOLEAN
    /\ initial \in InitWindows(P, scenario)
    /\ new(initial)
    /\ st = [t \in Takers |-> "idle"]
    /\ arg = [t \in Takers |-> NoneTag]
    /\ last = Last("new", 0, NoneTag, Ret("unit", 0))
    /\ sent = 0
    /\ hist = [put |-> FALSE, rejected |-> FALSE]
    /\ rw = RwOff
    /\ pp = PpOff
    /\ bc = BcOff
    /\ cd = CdOff
    /\ LinkOff

\* ----------------------------------------------------------------- take
\* `w.window % P::increment() == 0`: the cell that brought the window to val
\* has its tag recorded.
records_tag_before(val, p) == (val + 1) % increment(p) = 0

records_tag(val, p) == val % increment(p) = 0

\* One pass of take's loop with the lock held: either the cell is counted
\* and take returns, or a notifier is installed.
take_body_no_assert(t, tag, op) ==
    LET val == checked_sub(window, 1) IN
    IF val >= 0
    THEN /\ window' = val
         /\ tags' = IF records_tag(val, P) THEN Append(tags, tag) ELSE tags
         /\ unblock' = unblock
         /\ st' = [st EXCEPT ![t] = "idle"]
         /\ arg' = [arg EXCEPT ![t] = NoneTag]
         /\ sent' = IF scenario THEN sent + 1 ELSE sent
         /\ last' = Last(op, t, tag, Ret("val", val))
    ELSE /\ unblock' = Sender(t)
         /\ st' = [u \in Takers |->
                     IF u = t THEN "pending"
                     ELSE IF unblock.some /\ u = unblock.rx THEN "canceled" ELSE st[u]]
         /\ arg' = [arg EXCEPT ![t] = tag]
         /\ last' = Last(op, t, tag, Ret("parked", 0))
         /\ UNCHANGED <<window, tags, sent>>

take_body(t, tag, op) ==
    LET val == checked_sub(window, 1) IN
    IF val >= 0
    THEN /\ window' = val
         /\ tags' = IF records_tag(val, P) THEN Append(tags, tag) ELSE tags
         /\ unblock' = unblock
         /\ st' = [st EXCEPT ![t] = "idle"]
         /\ arg' = [arg EXCEPT ![t] = NoneTag]
         /\ sent' = IF scenario THEN sent + 1 ELSE sent
         /\ last' = Last(op, t, tag, Ret("val", val))
    ELSE IF unblock.some
    THEN \* assert!(old.is_none()) fails after the replace: the unwinding
         \* drops old (its receiver sees Canceled) and the new receiver.
         /\ unblock' = StaleSender
         /\ st' = [u \in Takers |->
                     IF u = t THEN "idle"
                     ELSE IF u = unblock.rx THEN "canceled" ELSE st[u]]
         /\ arg' = [arg EXCEPT ![t] = NoneTag]
         /\ last' = Last(op, t, tag, Ret("assert_panic", 0))
         /\ UNCHANGED <<window, tags, sent>>
    ELSE /\ unblock' = Sender(t)
         /\ st' = [st EXCEPT ![t] = "pending"]
         /\ arg' = [arg EXCEPT ![t] = tag]
         /\ last' = Last(op, t, tag, Ret("parked", 0))
         /\ UNCHANGED <<window, tags, sent>>

\* SendWindow::take called on a handle by an idle task.
take(t, tag) ==
    /\ st[t] = "idle"
    /\ take_body(t, tag, "take")
    /\ waker' = waker \ {t}
    /\ UNCHANGED <<P, initial, scenario, hist>>
    /\ UNCHANGED otherVars

\* Any task, any tag.
TakeFree ==
    /\ ~scenario
    /\ \E t \in Takers, tag \in TagSet(P) : take(t, tag)

\* The scripted sender: task 1 alone, k-th cell tagged k / increment.
TakeScenario ==
    /\ scenario
    /\ sent < maximum(P) + ExtraCells
    /\ take(1, ScenarioTag(P, sent + 1))

\* wait_on.await returned Ok: loop back to the top of take.
take_retry(t) ==
    /\ st[t] = "sent"
    /\ take_body(t, arg[t], "retry")
    /\ waker' = waker \ {t}
    /\ UNCHANGED <<P, initial, scenario, hist>>
    /\ UNCHANGED otherVars

\* wait_on.await returned Err(Canceled): the unwrap panics.
take_canceled(t) ==
    /\ st[t] = "canceled"
    /\ st' = [st EXCEPT ![t] = "idle"]
    /\ arg' = [arg EXCEPT ![t] = NoneTag]
    /\ last' = Last("wait", t, arg[t], Ret("unwrap_panic", 0))
    /\ waker' = waker \ {t}
    /\ UNCHANGED <<P, window, tags, unblock, initial, scenario, sent, hist>>
    /\ UNCHANGED otherVars

\* The caller drops a take future that is suspended on its receiver.
take_dropped(t) ==
    /\ st[t] \in {"pending", "sent", "canceled"}
    /\ st' = [st EXCEPT ![t] = "idle"]
    /\ arg' = [arg EXCEPT ![t] = NoneTag]
    /\ unblock' = IF unblock = Sender(t) THEN StaleSender ELSE unblock
    /\ last' = Last("drop", t, arg[t], Ret("unit", 0))
    /\ waker' = waker \ {t}
    /\ UNCHANGED <<P, window, tags, initial, scenario, sent, hist>>
    /\ UNCHANGED otherVars

\* ------------------------------------------------------------------ put
\* The match on (w.tags.pop_front(), tag): TRUE when the SENDME is accepted.
tag_ok_unsolicited(q, tag) == q = <<>> \/ tag = NoneTag \/ Head(q) = tag

tag_ok_anywhere(q, tag) ==
    q # <<>> /\ (tag = NoneTag \/ \E i \in 1..Len(q) : q[i] = tag)

tag_ok_needs_tag(q, tag) == q # <<>> /\ Head(q) = tag

tag_ok(q, tag) == q # <<>> /\ (tag = NoneTag \/ Head(q) = tag)

\* VecDeque::pop_front: what is left of the queue.
pop_front(q) == IF q = <<>> THEN q ELSE Tail(q)

\* Option::take on w.unblock: what it leaves behind.
option_peek(u) == u

option_take(u) == NoSender

\* oneshot::Sender::send on the sender taken out of unblock. The message
\* is kept in the channel whether or not the receiver has been polled yet.
send_needs_waker(s) ==
    [u \in Takers |->
        IF s.some /\ u = s.rx /\ st[u] = "pending" /\ u \in waker
        THEN "sent" ELSE st[u]]

send_lost(s) == st

send(s) ==
    [u \in Takers |-> IF s.some /\ u = s.rx /\ st[u] = "pending" THEN "sent" ELSE st[u]]

\* Err(()) of a send whose receiver is gone.
SendFailed == -1

\* `let _ignore = send.send(())`: the task whose receiver got the message,
\* 0 when unblock held no sender, SendFailed when the send failed.
send_result(s) == IF ~s.some THEN 0 ELSE IF s.rx = 0 THEN SendFailed ELSE s.rx

\* The body of SendWindow::put. In the record of a put, t is the result of
\* its send.
put_body(tag) ==
    LET v == checked_add(window, increment(P)) IN
    /\ tags' = pop_front(tags)
    /\ IF tag_ok(tags, tag) /\ v >= 0
       THEN /\ window' = v
            /\ unblock' = option_take(unblock)
            /\ st' = send(unblock)
            /\ last' = Last("put", send_result(unblock), tag, Ret("some", v))
            /\ hist' = [hist EXCEPT !.put = TRUE]
       ELSE /\ last' = Last("put", 0, tag, Ret("none", 0))
            /\ hist' = [put |-> TRUE, rejected |-> TRUE]
            /\ UNCHANGED <<window, unblock, st>>

\* SendWindow::put called on the reactor's handle.
put(tag) ==
    /\ put_body(tag)
    /\ UNCHANGED <<P, arg, initial, scenario, sent, waker>>
    /\ UNCHANGED otherVars

\* A SENDME arrives; the scripted run delivers them once `maximum` cells are out.
Put ==
    /\ scenario => sent >= maximum(P)
    /\ \E tag \in PutTags(P, scenario) : put(tag)

Retry == \E t \in Takers : take_retry(t)

Canceled == \E t \in Takers : take_canceled(t)

Dropped == \E t \in Takers : take_dropped(t)

Next ==
    \/ TakeFree
    \/ TakeScenario
    \/ Retry
    \/ Canceled
    \/ Dropped
    \/ Put

Spec == Init /\ [][Next]_vars

TypeOK ==
    /\ P \in Policies
    /\ window \in 0..U16Max
    /\ unblock \in {NoSender, StaleSender} \cup {Sender(t) : t \in Takers}
    /\ \A t \in Takers : st[t] \in {"idle", "pending", "sent", "canceled"}
    /\ \A t \in Takers : unblock = Sender(t) => st[t] = "pending"

\* The scripted run alone, with the executor polling every woken task.
InitScenario == Init /\ scenario

NextScenario ==
    \/ TakeScenario
    \/ Retry
    \/ Dropped
    \/ Put

FairSpec ==
    /\ InitScenario
    /\ [][NextScenario]_vars
    /\ \A t \in Takers : WF_vars(take_retry(t))

\* ------------------------------------------------------------- the gap
\* wait_on.await polls the receiver for the first time and finds nothing:
\* the task's waker is registered and the take is suspended. Until then the
\* take has installed its notifier and released the lock, no more.
poll_receiver(t) ==
    /\ st[t] = "pending"
    /\ t \notin waker
    /\ waker' = waker \cup {t}
    /\ last' = Last("poll", t, arg[t], Ret("pending", 0))
    /\ UNCHANGED <<P, window, tags, unblock, st, arg, initial, scenario, sent, hist>>
    /\ UNCHANGED otherVars

Poll == \E t \in Takers : poll_receiver(t)

NextGap ==
    \/ TakeScenario
    \/ Retry
    \/ Poll
    \/ Put

\* The scripted sender and the reactor on two threads: a put may run between
\* the release of the lock and the first poll of the receiver. The executor
\* goes on running a task whose receiver holds a message.
GapSpec ==
    /\ InitScenario
    /\ [][NextGap]_vars
    /\ \A t \in Takers : WF_vars(take_retry(t))

\* ------------------------------------------------------------- handles
\* A handle is dropped by its owner. A take in progress borrows its handle,
\* so only a task that is not inside take can drop its own. When the last
\* handle goes, the Arc frees SendWindowInner and the sender in unblock.
drop_handle(h) ==
    /\ h \in handles
    /\ h \in Takers => st[h] = "idle"
    /\ handles' = handles \ {h}
    /\ unblock' = IF handles' = {} THEN NoSender ELSE unblock
    /\ last' = Last("drop_handle", h, NoneTag, Ret("unit", 0))
    /\ UNCHANGED <<P, window, tags, st, arg, initial, scenario, sent, hist>>
    /\ UNCHANGED <<rw, pp, bc, cd, waker, chan>>

\* take on a handle that is still alive.
TakeLive ==
    /\ ~scenario
    /\ \E t \in handles \cap Takers, tag \in TagSet(P) : take(t, tag)

\* put on the reactor's handle, while the reactor has it.
PutLive ==
    /\ Reactor \in handles
    /\ \E tag \in PutTags(P, scenario) : put(tag)

DropHandle == \E h \in AllHandles : drop_handle(h)

InitTeardown == Init /\ ~scenario

NextTeardown ==
    \/ TakeLive
    \/ Retry
    \/ Canceled
    \/ Dropped
    \/ PutLive
    \/ DropHandle

\* The executor polls every task whose receiver has resolved.
TeardownSpec ==
    /\ InitTeardown
    /\ [][NextTeardown]_vars
    /\ \A t \in Takers : WF_vars(take_retry(t)) /\ WF_vars(take_canceled(t))

\* ----------------------------------------------------------- RecvWindow
\* The SendWindow of a specification that does not exercise it.
SendOff ==
    /\ initial = 0
    /\ new(0)
    /\ scenario = FALSE
    /\ st = [t \in Takers |-> "idle"]
    /\ arg = [t \in Takers |-> NoneTag]
    /\ last = Last("new", 0, NoneTag, Ret("unit", 0))
    /\ sent = 0
    /\ hist = [put |-> FALSE, rejected |-> FALSE]

\* rw.window is RecvWindow.window. rw.owed counts the takes that returned
\* Some(true) and have not been answered by a put. rw.k counts the take
\* calls of a run of takes alone, and is -1 once put or decrement_n has run.
\* rw.op, rw.n and rw.ret are the last call, its argument and its result.

\* RecvWindow::new
recv_new(w) ==
    [window |-> w, owed |-> 0, k |-> 0, op |-> "new", n |-> 0, ret |-> "unit"]

\* `x % P::increment() == 0`: time to send a SENDME.
sendme_due_before(x, p) == (x + 1) % increment(p) = 0

sendme_due(x, p) == x % increment(p) = 0

\* RecvWindow::take
recv_take(r) ==
    LET v == checked_sub(r.window, 1)
        k == IF r.k >= 0 THEN r.k + 1 ELSE r.k
    IN  IF v >= 0
        THEN [window |-> v,
              owed |-> IF sendme_due(v, P) THEN r.owed + 1 ELSE r.owed,
              k |-> k, op |-> "take", n |-> 0,
              ret |-> IF sendme_due(v, P) THEN "some_true" ELSE "some_false"]
        ELSE [r EXCEPT !.k = k, !.op = "take", !.n = 0, !.ret = "none"]

\* RecvWindow::decrement_n
recv_decrement_n_clamps(r, n) ==
    LET v == checked_sub(r.window, n)
    IN  IF v >= 0
        THEN [r EXCEPT !.window = v, !.k = -1, !.op = "decrement_n", !.n = n,
                       !.ret = "ok"]
        ELSE [r EXCEPT !.window = 0, !.k = -1, !.op = "decrement_n", !.n = n,
                       !.ret = "CircProto"]

recv_decrement_n(r, n) ==
    LET v == checked_sub(r.window, n)
    IN  IF v >= 0
        THEN [r EXCEPT !.window = v, !.k = -1, !.op = "decrement_n", !.n = n,
                       !.ret = "ok"]
        ELSE [r EXCEPT !.k = -1, !.op = "decrement_n", !.n = n,
                       !.ret = "CircProto"]

\* RecvWindow::put: the unwrap panics when checked_add overflows.
recv_put_no_credit(r) ==
    [r EXCEPT !.owed = r.owed - 1, !.k = -1, !.op = "put", !.n = 0, !.ret = "unit"]

recv_put(r) ==
    LET v == checked_add(r.window, increment(P))
    IN  IF v >= 0
        THEN [r EXCEPT !.window = v, !.owed = r.owed - 1, !.k = -1,
                       !.op = "put", !.n = 0, !.ret = "unit"]
        ELSE [r EXCEPT !.k = -1, !.op = "put", !.n = 0, !.ret = "panic"]

\* Arguments handed to decrement_n.
DecArgs(r) == {0, 1, increment(P), r.window, r.window + 1, U16Max}

\* A data cell arrives.
RecvTake ==
    /\ rw.op # "off"
    /\ rw.k < maximum(P) + ExtraCells
    /\ rw' = recv_take(rw)
    /\ UNCHANGED <<P, linkVars, sendVars, pp, bc, cd>>

\* The SENDME that a take asked for has been sent.
RecvPut ==
    /\ rw.op # "off"
    /\ rw.owed > 0
    /\ rw' = recv_put(rw)
    /\ UNCHANGED <<P, linkVars, sendVars, pp, bc, cd>>

RecvDecrement ==
    /\ rw.op # "off"
    /\ \E n \in DecArgs(rw) : rw' = recv_decrement_n(rw, n)
    /\ UNCHANGED <<P, linkVars, sendVars, pp, bc, cd>>

InitRecv ==
    /\ P \in Policies
    /\ SendOff
    /\ rw = recv_new(maximum(P))
    /\ pp = PpOff
    /\ bc = BcOff
    /\ cd = CdOff
    /\ LinkOff

NextRecv ==
    \/ RecvTake
    \/ RecvPut
    \/ RecvDecrement

SpecRecv == InitRecv /\ [][NextRecv]_vars

\* ------------------------------------------------------------- the link
\* A sender gated by a SendWindow<P> and a receiver tracking a RecvWindow<P>,
\* joined by two order-preserving channels: chan.cells carries the data
\* cells (front is index 1) and chan.sendmes the SENDMEs coming back.
\* A cell in flight is its tag and rec, whether the sender's take recorded
\* that tag. chan.got counts the cells received; chan.ret and chan.rec are
\* what the receiver's take returned for the last of them and that cell's
\* rec.
ChanNew ==
    [pc |-> "link", cells |-> <<>>, sendmes |-> <<>>, got |-> 0,
     ret |-> "unit", rec |-> FALSE]

\* The cell leaves once take has returned; a parked take sends nothing yet.
emit(tag) ==
    IF last'.ret.k = "val"
    THEN [chan EXCEPT !.cells = Append(chan.cells, [tag |-> tag, rec |-> tags' # tags])]
    ELSE chan

\* The sender calls take for its next cell and sends it.
link_take(t) ==
    /\ st[t] = "idle"
    /\ sent < maximum(P) + ExtraCells
    /\ Len(chan.cells) < MaxInFlight
    /\ take_body(t, ScenarioTag(P, sent + 1), "take")
    /\ chan' = emit(ScenarioTag(P, sent + 1))
    /\ waker' = waker \ {t}
    /\ UNCHANGED <<P, initial, scenario, hist, rw, pp, bc, cd, handles>>

\* The sender's parked take is woken, loops and sends its cell.
link_retry(t) ==
    /\ st[t] = "sent"
    /\ Len(chan.cells) < MaxInFlight
    /\ take_body(t, arg[t], "retry")
    /\ chan' = emit(arg[t])
    /\ waker' = waker \ {t}
    /\ UNCHANGED <<P, initial, scenario, hist, rw, pp, bc, cd, handles>>

\* The receiver gets the oldest cell in flight: take, and on Some(true) put
\* and a SENDME that echoes the cell's tag.
link_recv ==
    /\ chan.pc = "link"
    /\ chan.cells # <<>>
    /\ LET cell == Head(chan.cells)
           r == recv_take(rw)
       IN  /\ rw' = IF r.ret = "some_true" THEN recv_put(r) ELSE r
           /\ chan' = [chan EXCEPT
                          !.cells = Tail(chan.cells),
                          !.sendmes = IF r.ret = "some_true"
                                      THEN Append(chan.sendmes, cell.tag)
                                      ELSE chan.sendmes,
                          !.got = chan.got + 1,
                          !.ret = r.ret,
                          !.rec = cell.rec]
    /\ UNCHANGED <<P, sendVars, pp, bc, cd, handles, waker>>

\* The sender's reactor gets the oldest SENDME in flight and calls put.
link_sendme ==
    /\ chan.pc = "link"
    /\ chan.sendmes # <<>>
    /\ put_body(Head(chan.sendmes))
    /\ chan' = [chan EXCEPT !.sendmes = Tail(chan.sendmes)]
    /\ UNCHANGED <<P, arg, initial, scenario, sent, waker, rw, pp, bc, cd, handles>>

\* Both windows start at P::maximum().
InitLink ==
    /\ P \in Policies
    /\ scenario = TRUE
    /\ initial = maximum(P)
    /\ new(initial)
    /\ st = [t \in Takers |-> "idle"]
    /\ arg = [t \in Takers |-> NoneTag]
    /\ last = Last("new", 0, NoneTag, Ret("unit", 0))
    /\ sent = 0
    /\ hist = [put |-> FALSE, rejected |-> FALSE]
    /\ rw = recv_new(maximum(P))
    /\ pp = PpOff
    /\ bc = BcOff
    /\ cd = CdOff
    /\ handles = AllHandles
    /\ waker = {}
    /\ chan = ChanNew

LinkTake == chan.pc = "link" /\ link_take(1)

LinkRetry == chan.pc = "link" /\ link_retry(1)

NextLink ==
    \/ LinkTake
    \/ LinkRetry
    \/ link_recv
    \/ link_sendme

LinkSpec == InitLink /\ [][NextLink]_vars

\* ------------------------------------------------------ ExitPathBuilder
\* Relays of the directory, named by their Ed25519 identity.
NumRelays == 3

Relays == 1..NumRelays

\* Option<Relay>::None
NoRelay == 0

\* The target ports of the by_ports test.
Ports == {443, 1119}

\* Unordered pairs of different relays that declare each other as family.
FamilyPairs == {pr \in SUBSET Relays : Cardinality(pr) = 2}

\* DirInfo::Directory over every family relation and every exit policy.
NetDirs ==
    {[kind |-> "Directory", family |-> f, policy |-> pol] :
        f \in SUBSET FamilyPairs, pol \in [Relays -> SUBSET Ports]}

\* DirInfo::Fallbacks: no relay information at all.
FallbackDirs ==
    {[kind |-> "Fallbacks", family |-> {}, policy |-> [r \in Relays |-> {}]]}

\* ExitPathBuilderInner
Builders ==
    {[mode |-> "WantsPorts", ports |-> w, relay |-> NoRelay] : w \in SUBSET Ports}
        \cup {[mode |-> "ChosenExit", ports |-> {}, relay |-> r] : r \in Relays}

\* Relay::in_same_family: a relay is in its own family.
in_same_family(nd, a, b) == a = b \/ {a, b} \in nd.family

\* TargetPort::is_supported_by
is_supported_by(nd, port, r) == port \in nd.policy[r]

\* NetDir::pick_relay: some relay that passes the predicate, or None when no
\* relay passes or every relay that passes has weight zero for the role.
pick_relay(nd, role, usable) == usable \cup {NoRelay}

\* TorPath::new_multihop
new_multihop(v) == [variant |-> "Path", hops |-> v]

\* One pick_relay call and what it returned.
Sample(role, r) == [role |-> role, relay |-> r]

PathErr(e, msg) == [k |-> "Err", e |-> e, msg |-> msg, path |-> new_multihop(<<>>)]

PathOk(path) == [k |-> "Ok", e |-> "", msg |-> "", path |-> path]

NoPathRet == [k |-> "none", e |-> "", msg |-> "", path |-> new_multihop(<<>>)]

PathOut(ret, sampled) == [ret |-> ret, sampled |-> sampled]

\* `DirInfo::Fallbacks(_) => return Err(Error::NeedConsensus)`
needs_consensus_never(nd) == FALSE

needs_consensus(nd) == nd.kind = "Fallbacks"

\* `wantports.iter().all(|p| p.is_supported_by(r))`
exit_ok_any(nd, wantports, r) == \E port \in wantports : is_supported_by(nd, port, r)

exit_ok(nd, wantports, r) == \A port \in wantports : is_supported_by(nd, port, r)

\* `|r| !r.in_same_family(&exit)`
middle_ok(nd, r, exit) == ~in_same_family(nd, r, exit)

\* `|r| !r.in_same_family(&middle) && !r.in_same_family(&exit)`
entry_ok_middle_only(nd, r, middle, exit) == ~in_same_family(nd, r, middle)

entry_ok(nd, r, middle, exit) ==
    ~in_same_family(nd, r, middle) /\ ~in_same_family(nd, r, exit)

\* ExitPathBuilder::pick_exit: the outcomes over every random choice.
pick_exit(inner, nd) ==
    IF inner.mode = "WantsPorts"
    THEN {[relay |-> r, sampled |-> <<Sample("Exit", r)>>] :
            r \in pick_relay(nd, "Exit",
                             {x \in Relays : exit_ok(nd, inner.ports, x)})}
    ELSE {[relay |-> inner.relay, sampled |-> <<>>]}

\* ExitPathBuilder::pick_path: the outcomes over every random choice.
pick_path(inner, nd) ==
    IF needs_consensus(nd)
    THEN {PathOut(PathErr("NeedConsensus", ""), <<>>)}
    ELSE UNION {
        IF x.relay = NoRelay
        THEN {PathOut(PathErr("NoRelays", "No exit relay found"), x.sampled)}
        ELSE UNION {
            IF middle = NoRelay
            THEN {PathOut(PathErr("NoRelays", "No middle relay found"),
                          x.sampled \o <<Sample("Middle", middle)>>)}
            ELSE {IF entry = NoRelay
                  THEN PathOut(PathErr("NoRelays", "No entry relay found"),
                               x.sampled \o <<Sample("Middle", middle),
                                              Sample("Guard", entry)>>)
                  ELSE PathOut(PathOk(new_multihop(<<entry, middle, x.relay>>)),
                               x.sampled \o <<Sample("Middle", middle),
                                              Sample("Guard", entry)>>) :
                    entry \in pick_relay(nd, "Guard",
                        {r \in Relays : entry_ok(nd, r, middle, x.relay)})} :
              middle \in pick_relay(nd, "Middle",
                  {r \in Relays : middle_ok(nd, r, x.relay)})} :
          x \in pick_exit(inner, nd)}

\* A caller runs pick_path on its builder and directory.
PickPath ==
    /\ pp.pc = "ready"
    /\ \E o \in pick_path(pp.inner, pp.netdir) :
          pp' = [pp EXCEPT !.pc = "returned", !.ret = o.ret,
                           !.sampled = o.sampled]
    /\ UNCHANGED <<P, linkVars, sendVars, rw, bc, cd>>

InitPath ==
    /\ P = "Circ"
    /\ SendOff
    /\ rw = RwOff
    /\ \E inner \in Builders, nd \in NetDirs \cup FallbackDirs :
          pp = [pc |-> "ready", inner |-> inner, netdir |-> nd,
                ret |-> NoPathRet, sampled |-> <<>>]
    /\ bc = BcOff
    /\ cd = CdOff
    /\ LinkOff

NextPath == PickPath

SpecPath == InitPath /\ [][NextPath]_vars

\* ------------------------------------------------ TorPath::build_circuit
\* Longest relay list of a multi-hop path.
MaxHops == 3

\* Sequences over S of length at most n.
SeqsUpTo(S, n) == UNION {[1..m -> S] : m \in 0..n}

\* enum TorPath
TorPaths ==
    {[variant |-> "OneHop", hops |-> <<r>>] : r \in Relays}
        \cup {[variant |-> "FallbackOneHop", hops |-> <<r>>] : r \in Relays}
        \cup {[variant |-> "Path", hops |-> h] : h \in SeqsUpTo(Relays, MaxHops)}

\* A call made on a collaborator, the hop it names and how it ended.
Call(op, hop) == [op |-> op, hop |-> hop, res |-> "pending"]

BuildErr(e, msg) == [k |-> "Err", e |-> e, msg |-> msg]

BuildOk == [k |-> "Ok", e |-> "", msg |-> ""]

NoBuildRet == [k |-> "none", e |-> "", msg |-> ""]

\* TorPath::first_hop
first_hop_no_empty_check(path) ==
    IF path.variant = "Path" /\ Len(path.hops) = 0
    THEN [k |-> "Ok", target |-> NoRelay, e |-> "", msg |-> ""]
    ELSE [k |-> "Ok", target |-> path.hops[1], e |-> "", msg |-> ""]

first_hop(path) ==
    IF path.variant = "Path" /\ Len(path.hops) = 0
    THEN [k |-> "Err", target |-> NoRelay, e |-> "NoRelays",
          msg |-> "Path with no entries!"]
    ELSE [k |-> "Ok", target |-> path.hops[1], e |-> "", msg |-> ""]

\* The last call of the log has ended.
Ended(log, res) == [log EXCEPT ![Len(log)].res = res]

\* `?` on an await that failed: build_circuit returns the error.
Fails_stops_reactor(b, e) ==
    [b EXCEPT !.pc = "returned", !.log = Ended(b.log, "err"),
              !.ret = BuildErr(e, ""), !.reactors = 0]

Fails(b, e) ==
    [b EXCEPT !.pc = "returned", !.log = Ended(b.log, "err"),
              !.ret = BuildErr(e, "")]

\* TorPath::get_channel up to the await of get_or_launch.
get_channel(b) ==
    LET fh == first_hop(b.path)
    IN  IF fh.k = "Err"
        THEN [b EXCEPT !.pc = "returned", !.ret = BuildErr(fh.e, fh.msg)]
        ELSE [b EXCEPT !.pc = "get_or_launch",
                       !.log = Append(b.log, Call("get_or_launch", fh.target))]

\* get_or_launch has ended: on success build_circuit calls new_circ.
after_get_or_launch(b, ok) ==
    IF ~ok
    THEN Fails(b, "ChanMgr")
    ELSE [b EXCEPT !.pc = "new_circ",
                   !.log = Append(Ended(b.log, "ok"), Call("new_circ", NoRelay))]

\* The first handshake: `match self` of build_circuit. Indexing p[0] of an
\* empty list panics.
first_handshake(b) ==
    IF b.path.variant \in {"OneHop", "FallbackOneHop"}
    THEN [b EXCEPT !.pc = "create",
                   !.log = Append(b.log, Call("create_firsthop_fast", NoRelay))]
    ELSE IF Len(b.path.hops) = 0
    THEN [b EXCEPT !.pc = "returned", !.ret = BuildErr("panic", "")]
    ELSE [b EXCEPT !.pc = "create", !.next = 2,
                   !.log = Append(b.log,
                                  Call("create_firsthop_ntor", b.path.hops[1]))]

\* tor_rtcompat::task::spawn of reactor.run(): the join handle is dropped
\* at once, so the task runs detached from build_circuit.
spawn(b) ==
    [b EXCEPT !.reactors = b.reactors + 1,
              !.log = Append(b.log, [Call("spawn", NoRelay) EXCEPT !.res = "ok"])]

\* new_circ has ended: on success the reactor is spawned and the first
\* handshake starts.
after_new_circ(b, ok) ==
    IF ~ok
    THEN Fails(b, "Proto")
    ELSE first_handshake(spawn([b EXCEPT !.log = Ended(b.log, "ok")]))

\* `for relay in p[1..].iter()`: the next extend_ntor, or Ok(circ).
next_extend(b) ==
    IF b.path.variant = "Path" /\ b.next <= Len(b.path.hops)
    THEN [b EXCEPT !.pc = "extend", !.next = b.next + 1,
                   !.log = Append(b.log, Call("extend_ntor", b.path.hops[b.next]))]
    ELSE [b EXCEPT !.pc = "returned", !.ret = BuildOk]

\* create_firsthop_fast or create_firsthop_ntor has ended.
after_create(b, ok) ==
    IF ~ok
    THEN Fails(b, "Proto")
    ELSE next_extend([b EXCEPT !.log = Ended(b.log, "ok")])

\* extend_ntor has ended.
after_extend_ignores_error(b, ok) ==
    next_extend([b EXCEPT !.log = Ended(b.log, IF ok THEN "ok" ELSE "err")])

after_extend(b, ok) ==
    IF ~ok
    THEN Fails(b, "Proto")
    ELSE next_extend([b EXCEPT !.log = Ended(b.log, "ok")])

\* build_circuit is called and runs to its first await.
BuildStart ==
    /\ bc.pc = "start"
    /\ bc' = get_channel(bc)
    /\ UNCHANGED <<P, linkVars, sendVars, rw, pp, cd>>

\* The channel manager answers.
ChannelDone ==
    /\ bc.pc = "get_or_launch"
    /\ \E ok \in BOOLEAN : bc' = after_get_or_launch(bc, ok)
    /\ UNCHANGED <<P, linkVars, sendVars, rw, pp, cd>>

\* The channel answers new_circ.
NewCircDone ==
    /\ bc.pc = "new_circ"
    /\ \E ok \in BOOLEAN : bc' = after_new_circ(bc, ok)
    /\ UNCHANGED <<P, linkVars, sendVars, rw, pp, cd>>

\* The first hop answers the create handshake.
CreateDone ==
    /\ bc.pc = "create"
    /\ \E ok \in BOOLEAN : bc' = after_create(bc, ok)
    /\ UNCHANGED <<P, linkVars, sendVars, rw, pp, cd>>

\* The circuit answers an extend handshake.
ExtendDone ==
    /\ bc.pc = "extend"
    /\ \E ok \in BOOLEAN : bc' = after_extend(bc, ok)
    /\ UNCHANGED <<P, linkVars, sendVars, rw, pp, cd>>

\* The caller drops the build_circuit future while it is suspended on an
\* await: the pending call is dropped with it, the spawned task is not.
BuildDropped ==
    /\ bc.pc \in {"get_or_launch", "new_circ", "create", "extend"}
    /\ bc' = [bc EXCEPT !.pc = "dropped", !.log = Ended(bc.log, "dropped")]
    /\ UNCHANGED <<P, linkVars, sendVars, rw, pp, cd>>

InitBuild ==
    /\ P = "Circ"
    /\ SendOff
    /\ rw = RwOff
    /\ pp = PpOff
    /\ \E path \in TorPaths :
          bc = [pc |-> "start", path |-> path, next |-> 1, log |-> <<>>,
                ret |-> NoBuildRet, reactors |-> 0]
    /\ cd = CdOff
    /\ LinkOff

NextBuild ==
    \/ BuildStart
    \/ ChannelDone
    \/ NewCircDone
    \/ CreateDone
    \/ ExtendDone
    \/ BuildDropped

SpecBuild == InitBuild /\ [][NextBuild]_vars

\* ------------------------------------------------------ codec primitives
\* Longest sequence of items written and read back.
MaxItems == 2

\* Bytes are 0..255. An unsigned integer of any width is held as its
\* base-256 digits, least significant first (a u128 is wider than the
\* integers at hand). An address is its octets in network order, an array
\* its bytes.
Rev(q) == [i \in 1..Len(q) |-> q[Len(q) + 1 - i]]

Counting(n, from) == [i \in 1..n |-> from + i]

\* Typed values to encode.
CodecValues ==
    {[ty |-> "u8", v |-> <<x>>] : x \in {0, 255}}
        \cup {[ty |-> "u16", v |-> x] : x \in {<<2, 1>>, <<255, 255>>}}
        \cup {[ty |-> "u32", v |-> <<4, 3, 2, 1>>],
              [ty |-> "u64", v |-> Counting(8, 16)],
              [ty |-> "u128", v |-> Counting(16, 32)],
              [ty |-> "Ipv4Addr", v |-> <<192, 0, 2, 1>>],
              [ty |-> "Ipv4Addr", v |-> <<127, 0, 0, 1>>],
              [ty |-> "Ipv6Addr", v |-> Counting(16, 64)],
              [ty |-> "[u8; 16]", v |-> Counting(16, 96)],
              [ty |-> "[u8; 20]", v |-> Counting(20, 128)],
              [ty |-> "[u8; 32]", v |-> Counting(32, 160)]}

\* Encoded width of each type in bytes.
Width(ty) ==
    CASE ty = "u8" -> 1
      [] ty = "u16" -> 2
      [] ty = "u32" -> 4
      [] ty = "u64" -> 8
      [] ty = "u128" -> 16
      [] ty = "Ipv4Addr" -> 4
      [] ty = "Ipv6Addr" -> 16
      [] ty = "[u8; 16]" -> 16
      [] ty = "[u8; 20]" -> 20
      [] ty = "[u8; 32]" -> 32

\* uN::to_be_bytes and uN::from_be_bytes on the digits form.
to_be_bytes(digits) == Rev(digits)

from_be_bytes(bytes) == Rev(bytes)

\* impl Writer for Vec<u8>: write_all
write_all(b, bytes) == b \o bytes

\* Writer::write_u8 .. write_u128: big-endian.
write_u8(b, x) == write_all(b, to_be_bytes(x))

write_u16(b, x) == write_all(b, to_be_bytes(x))

write_u32(b, x) == write_all(b, to_be_bytes(x))

write_u64(b, x) == write_all(b, to_be_bytes(x))

write_u128(b, x) == write_all(b, to_be_bytes(x))

\* Reader::from_slice
from_slice(bytes) == [bytes |-> bytes, off |-> 0]

\* Reader::take: the next n bytes, or BadMessage("truncated").
take_n(r, n) ==
    IF r.off + n > Len(r.bytes)
    THEN [k |-> "Err", v |-> <<>>, r |-> r]
    ELSE [k |-> "Ok", v |-> SubSeq(r.bytes, r.off + 1, r.off + n),
          r |-> [r EXCEPT !.off = r.off + n]]

\* Reader::take_u8 .. take_u128: big-endian.
take_u8(r) ==
    LET t == take_n(r, 1)
    IN  IF t.k = "Err" THEN t ELSE [t EXCEPT !.v = from_be_bytes(t.v)]

take_u16(r) ==
    LET t == take_n(r, 2)
    IN  IF t.k = "Err" THEN t ELSE [t EXCEPT !.v = from_be_bytes(t.v)]

take_u32(r) ==
    LET t == take_n(r, 4)
    IN  IF t.k = "Err" THEN t ELSE [t EXCEPT !.v = from_be_bytes(t.v)]

take_u64(r) ==
    LET t == take_n(r, 8)
    IN  IF t.k = "Err" THEN t ELSE [t EXCEPT !.v = from_be_bytes(t.v)]

take_u128(r) ==
    LET t == take_n(r, 16)
    IN  IF t.k = "Err" THEN t ELSE [t EXCEPT !.v = from_be_bytes(t.v)]

\* Ipv4Addr::octets, Ipv6Addr::octets
octets(a) == a

\* impl From<u32> for Ipv4Addr, impl From<u128> for Ipv6Addr
addr_from(x) == to_be_bytes(x)

\* impl Writeable for Ipv4Addr
ipv4_write_onto_reversed(a, b) == write_all(b, Rev(octets(a)))

ipv4_write_onto(a, b) == write_all(b, octets(a))

\* impl Readable for Ipv4Addr
ipv4_take_from(r) ==
    LET t == take_u32(r)
    IN  IF t.k = "Err" THEN t ELSE [t EXCEPT !.v = addr_from(t.v)]

\* impl Writeable for Ipv6Addr
ipv6_write_onto(a, b) == write_all(b, octets(a))

\* impl Readable for Ipv6Addr
ipv6_take_from(r) ==
    LET t == take_u128(r)
    IN  IF t.k = "Err" THEN t ELSE [t EXCEPT !.v = addr_from(t.v)]

\* impl Writeable for [u8; $n]
array_write_onto(a, b) == write_all(b, a)

\* impl Readable for [u8; $n]
array_take_from(r, n) == take_n(r, n)

\* Writeable::write_onto by type.
write_onto(item, b) ==
    CASE item.ty = "u8" -> write_u8(b, item.v)
      [] item.ty = "u16" -> write_u16(b, item.v)
      [] item.ty = "u32" -> write_u32(b, item.v)
      [] item.ty = "u64" -> write_u64(b, item.v)
      [] item.ty = "u128" -> write_u128(b, item.v)
      [] item.ty = "Ipv4Addr" -> ipv4_write_onto(item.v, b)
      [] item.ty = "Ipv6Addr" -> ipv6_write_onto(item.v, b)
      [] OTHER -> array_write_onto(item.v, b)

\* Readable::take_from by type.
take_from(ty, r) ==
    CASE ty = "u8" -> take_u8(r)
      [] ty = "u16" -> take_u16(r)
      [] ty = "u32" -> take_u32(r)
      [] ty = "u64" -> take_u64(r)
      [] ty = "u128" -> take_u128(r)
      [] ty = "Ipv4Addr" -> ipv4_take_from(r)
      [] ty = "Ipv6Addr" -> ipv6_take_from(r)
      [] OTHER -> array_take_from(r, Width(ty))

\* The next item is written onto the buffer.
CodecWrite ==
    /\ cd.pc = "write"
    /\ cd.written < Len(cd.items)
    /\ cd' = [cd EXCEPT !.written = cd.written + 1,
                        !.buf = write_onto(cd.items[cd.written + 1], cd.buf)]
    /\ UNCHANGED <<P, linkVars, sendVars, rw, pp, bc>>

\* A reader is opened over everything written.
CodecOpen ==
    /\ cd.pc = "write"
    /\ cd.written = Len(cd.items)
    /\ cd' = [cd EXCEPT !.pc = "read", !.reader = from_slice(cd.buf)]
    /\ UNCHANGED <<P, linkVars, sendVars, rw, pp, bc>>

\* The next item is read back as the type that was written.
CodecRead ==
    /\ cd.pc = "read"
    /\ ~cd.err
    /\ Len(cd.out) < Len(cd.items)
    /\ LET ty == cd.items[Len(cd.out) + 1].ty
           t == take_from(ty, cd.reader)
       IN  cd' = IF t.k = "Err"
                 THEN [cd EXCEPT !.err = TRUE]
                 ELSE [cd EXCEPT !.reader = t.r,
                                 !.out = Append(cd.out, [ty |-> ty, v |-> t.v])]
    /\ UNCHANGED <<P, linkVars, sendVars, rw, pp, bc>>

InitCodec ==
    /\ P = "Circ"
    /\ SendOff
    /\ rw = RwOff
    /\ pp = PpOff
    /\ bc = BcOff
    /\ \E items \in SeqsUpTo(CodecValues, MaxItems) :
          cd = [pc |-> "write", items |-> items, written |-> 0, buf |-> <<>>,
                reader |-> from_slice(<<>>), out |-> <<>>, err |-> FALSE]
    /\ LinkOff

NextCodec ==
    \/ CodecWrite
    \/ CodecOpen
    \/ CodecRead

SpecCodec == InitCodec /\ [][NextCodec]_vars

\* ---------------------------------------------------------------- claims
TakeOps == {"take", "retry"}

Parked == {t \in Takers : st[t] = "pending"}

\* A put step whose SENDME carries a tag other than the front of the queue.
MismatchedPut ==
    /\ last'.op = "put"
    /\ tags # <<>>
    /\ last'.tag # NoneTag
    /\ last'.tag # Head(tags)

\* A put step that wakes exactly the task whose receiver pairs with the
\* sender in unblock, and clears unblock.
FiresAndClears ==
    /\ unblock' = NoSender
    /\ \A t \in Takers :
         st'[t] = IF unblock = Sender(t) THEN "sent" ELSE st[t]

\* C1: a put whose tag differs from the front of the tag queue returns None
\* and changes nothing: window, the tag queue (same elements, same order),
\* unblock and every parked take stay as they were.
C1_MismatchedPutChangesNothing ==
    [][MismatchedPut =>
         /\ last'.ret.k = "none"
         /\ window' = window
         /\ tags' = tags
         /\ unblock' = unblock
         /\ st' = st]_vars

\* C2: put(Some(tag)) with tag equal to the oldest recorded tag removes
\* exactly that front tag, adds exactly increment to window, returns
\* Some(new window), fires the installed notifier and clears unblock.
C2_MatchingPutAccepted ==
    [][(/\ last'.op = "put"
        /\ tags # <<>>
        /\ last'.tag # NoneTag
        /\ last'.tag = Head(tags))
       =>
       (/\ tags' = Tail(tags)
        /\ window' = window + increment(P)
        /\ last'.ret = Ret("some", window + increment(P))
        /\ FiresAndClears)]_vars

\* After 1000 circuit cells and a parked 1001st take, put(Some(1)) returned
\* Some(100), the front is 2 and the parked take has been notified.
C2_Witness ==
    /\ scenario
    /\ P = "Circ"
    /\ last = Last("put", 1, 1, Ret("some", 100))
    /\ window = 100
    /\ Len(tags) = 9
    /\ Head(tags) = 2
    /\ st[1] = "sent"
    /\ unblock = NoSender

\* C3: from window = maximum with no put, the k-th take (k <= maximum)
\* returns maximum - k without suspending and records its tag iff
\* maximum - k is a multiple of increment; so the queue holds, in order, the
\* tags of calls increment, 2*increment, ..., and after maximum takes the
\* window is 0 with maximum/increment tags.
C3_SerializedTakes ==
    (scenario /\ ~hist.put) =>
        /\ sent <= maximum(P)
        /\ window = maximum(P) - sent
        /\ Len(tags) = sent \div increment(P)
        /\ \A i \in 1..Len(tags) : tags[i] = ScenarioTag(P, i * increment(P))
        /\ (last.ret.k = "val" =>
              /\ last.ret.v = maximum(P) - sent
              /\ last.tag = ScenarioTag(P, sent))
        /\ (sent < maximum(P) => \A t \in Takers : st[t] = "idle")

C3_Witness ==
    /\ scenario
    /\ ~hist.put
    /\ P = "Circ"
    /\ sent = 1000
    /\ window = 0
    /\ tags = <<1, 2, 3, 4, 5, 6, 7, 8, 9, 10>>
    /\ last = Last("take", 1, 10, Ret("val", 0))

\* C4: with an initial window of at most maximum, every reachable state has
\* 0 <= window <= maximum and at most ceil(maximum/increment) queued tags.
C4_WindowAndTagsBounded ==
    /\ window >= 0
    /\ window <= maximum(P)
    /\ Len(tags) <= (maximum(P) + increment(P) - 1) \div increment(P)

\* The last outstanding SENDME has brought a drained window back to maximum.
C4_Witness ==
    /\ initial = maximum(P)
    /\ window = maximum(P)
    /\ last.op = "put"
    /\ last.ret = Ret("some", maximum(P))
    /\ tags = <<>>

C6_AtMostOneParked ==
    /\ [](Cardinality(Parked) <= 1)
    /\ [][(last'.op \in TakeOps /\ window = 0 /\ unblock.some) =>
            /\ last'.ret.k = "assert_panic"
            /\ st'[last'.t] = "idle"
            /\ Cardinality({t \in Takers : st'[t] = "pending"}) = 0]_vars

\* A second take hit the assertion while the first was parked.
C6_Witness ==
    /\ last.op = "take"
    /\ last.ret.k = "assert_panic"
    /\ \E t \in Takers : t # last.t /\ st[t] = "canceled"

\* C7: a tagged put is accepted iff the queue is non-empty and its front
\* equals the tag (a tag found only further back is rejected); any put
\* against an empty queue returns None and leaves window and unblock alone.
C7_StrictlyOldestTag ==
    [][(last'.op = "put") =>
         /\ (last'.tag # NoneTag =>
               (last'.ret.k = "some" <=> (tags # <<>> /\ Head(tags) = last'.tag)))
         /\ (tags = <<>> =>
               /\ last'.ret.k = "none"
               /\ window' = window
               /\ unblock' = unblock)]_vars

\* A put was rejected although its tag is still queued behind the old front.
C7_Witness ==
    /\ last.op = "put"
    /\ last.ret.k = "none"
    /\ last.tag # NoneTag
    /\ \E i \in 1..Len(tags) : tags[i] = last.tag

\* C8: put(None) against a non-empty queue is accepted whatever the front
\* tag is: the front is consumed, window rises by increment, a parked take
\* is woken and Some(new window) is returned.
C8_UntaggedPutAccepted ==
    [][(last'.op = "put" /\ last'.tag = NoneTag /\ tags # <<>>) =>
         /\ tags' = Tail(tags)
         /\ window' = window + increment(P)
         /\ last'.ret = Ret("some", window + increment(P))
         /\ FiresAndClears]_vars

\* An untagged put was accepted and woke the parked take.
C8_Witness ==
    /\ last.op = "put"
    /\ last.tag = NoneTag
    /\ last.ret = Ret("some", increment(P))
    /\ \E t \in Takers : st[t] = "sent"

\* C9: unblock is Some only while window = 0.
C9_UnblockOnlyAtZero == unblock.some => window = 0

\* A take has just installed its notifier on an empty window.
C9_Witness ==
    /\ last.ret.k = "parked"
    /\ unblock = Sender(last.t)
    /\ window = 0

\* C10 (as claimed): from window = maximum, maximum/increment takes record
\* maximum/increment tags and bring the window to 0.
C10_TenTakesDrainWindow ==
    (scenario /\ ~hist.put /\ sent = maximum(P) \div increment(P)) =>
        /\ window = 0
        /\ Len(tags) = maximum(P) \div increment(P)

\* C10 (amended): from window = maximum, it is `maximum` takes (1000 for
\* Circuit, 500 for Stream) that record maximum/increment tags and bring the
\* window to 0; no earlier take suspends and the next one does.
C10_MaximumTakesDrainWindow ==
    (scenario /\ ~hist.put) =>
        /\ sent <= maximum(P)
        /\ (sent = maximum(P) =>
              /\ window = 0
              /\ Len(tags) = maximum(P) \div increment(P))
        /\ (sent < maximum(P) =>
              /\ window > 0
              /\ Len(tags) < maximum(P) \div increment(P)
              /\ last.ret.k \in {"unit", "val"}
              /\ \A t \in Takers : st[t] = "idle")
        /\ (last.op = "take" /\ sent = maximum(P) /\ last.ret.k # "val" =>
              \/ last.ret.k = "parked" /\ st[1] = "pending"
              \/ last.ret.k = "assert_panic")

\* Take number maximum + 1 is suspended.
C10_Witness ==
    /\ scenario
    /\ ~hist.put
    /\ sent = maximum(P)
    /\ window = 0
    /\ Len(tags) = maximum(P) \div increment(P)
    /\ last.ret.k = "parked"
    /\ st[1] = "pending"

\* C11: RecvWindow.take with window > 0 decrements window by one and returns
\* Some(true) iff the new value is a multiple of increment, else Some(false);
\* with window = 0 it returns None and leaves window at 0. From maximum with
\* no put, the k-th take returns Some(true) exactly when k is a multiple of
\* increment, the first maximum takes succeed and take maximum + 1 is None.
C11_RecvTake ==
    (rw.op = "take") =>
        /\ (rw.ret = "some_true" => rw.window % increment(P) = 0)
        /\ (rw.ret = "some_false" => rw.window % increment(P) # 0)
        /\ (rw.ret = "none" => rw.window = 0)
        /\ (rw.k >= 0 =>
              IF rw.k <= maximum(P)
              THEN /\ rw.window = maximum(P) - rw.k
                   /\ rw.ret = IF rw.k % increment(P) = 0
                               THEN "some_true" ELSE "some_false"
              ELSE /\ rw.window = 0
                   /\ rw.ret = "none")

\* The 50th take on a fresh stream window asks for a SENDME.
C11_Witness ==
    /\ P = "Stream"
    /\ rw.op = "take"
    /\ rw.k = 50
    /\ rw.window = 450
    /\ rw.ret = "some_true"

\* C12: on a RecvWindow created at maximum, with put called at most once for
\* each take that returned Some(true), however late, window stays within
\* 0..maximum and put's checked addition never overflows.
C12_RecvWindowBounded ==
    /\ rw.window >= 0
    /\ rw.window <= maximum(P)
    /\ rw.ret # "panic"

\* Two SENDMEs were owed at once and the second put is back at maximum.
C12_Witness ==
    /\ rw.op = "put"
    /\ rw.owed = 0
    /\ rw.window = maximum(P)

\* C13 (as claimed): the error of a decrement_n that underflows is of the
\* StreamProto kind.
C13_UnderflowIsStreamProto ==
    (rw.op = "decrement_n" /\ rw.ret # "ok") => rw.ret = "StreamProto"

\* C13 (amended): decrement_n(n) with n <= window reduces window by exactly n
\* and returns Ok; with n > window it returns a CircProto error and leaves
\* window unchanged.
C13_DecrementN ==
    [][(rw'.op = "decrement_n") =>
         IF rw'.n <= rw.window
         THEN /\ rw'.window = rw.window - rw'.n
              /\ rw'.ret = "ok"
         ELSE /\ rw'.window = rw.window
              /\ rw'.ret = "CircProto"]_vars

\* A decrement_n one larger than the window failed and left it alone.
C13_Witness ==
    /\ rw.op = "decrement_n"
    /\ rw.ret = "CircProto"
    /\ rw.n = rw.window + 1
    /\ rw.window > 0

\* Roles sampled by the last pick_path, in order.
SampledRoles == [i \in 1..Len(pp.sampled) |-> pp.sampled[i].role]

\* C14: every path returned by pick_path, in WantsPorts and in ChosenExit
\* mode, is a multi-hop path of exactly 3 relays in the order
\* [entry, middle, exit] whose identities are pairwise distinct and in which
\* no pair is in the same family.
C14_ThreeUnrelatedHops ==
    (pp.pc = "returned" /\ pp.ret.k = "Ok") =>
        LET path == pp.ret.path
            h == path.hops
            n == Len(pp.sampled)
        IN  /\ path.variant = "Path"
            /\ Len(h) = 3
            /\ n >= 2
            /\ pp.sampled[n] = Sample("Guard", h[1])
            /\ pp.sampled[n - 1] = Sample("Middle", h[2])
            /\ \/ pp.inner.mode = "ChosenExit" /\ n = 2 /\ h[3] = pp.inner.relay
               \/ pp.inner.mode = "WantsPorts" /\ n = 3
                    /\ pp.sampled[1] = Sample("Exit", h[3])
            /\ \A i \in 1..3 : h[i] \in Relays
            /\ \A i, j \in 1..3 :
                  i # j => /\ h[i] # h[j]
                           /\ ~in_same_family(pp.netdir, h[i], h[j])

\* A path was returned in each mode's shape: here for wanted ports
\* {443, 1119}, with all three roles sampled.
C14_Witness ==
    /\ pp.pc = "returned"
    /\ pp.ret.k = "Ok"
    /\ pp.inner.mode = "WantsPorts"
    /\ pp.inner.ports = Ports
    /\ SampledRoles = <<"Exit", "Middle", "Guard">>

\* C15: the last hop of every returned path satisfies the builder: in
\* WantsPorts mode its policy permits every requested port, and when no relay
\* permits them all pick_path fails with NoRelays("No exit relay found")
\* without picking a middle or guard; in ChosenExit mode the exit is the
\* supplied relay whatever its policy.
C15_ExitMeetsRequirement ==
    (pp.pc = "returned" /\ pp.netdir.kind = "Directory") =>
        /\ (pp.ret.k = "Ok" /\ pp.inner.mode = "WantsPorts") =>
              \A port \in pp.inner.ports :
                  port \in pp.netdir.policy[pp.ret.path.hops[3]]
        /\ (pp.inner.mode = "WantsPorts"
              /\ ~\E r \in Relays :
                    \A port \in pp.inner.ports : port \in pp.netdir.policy[r]) =>
              /\ pp.ret = PathErr("NoRelays", "No exit relay found")
              /\ SampledRoles = <<"Exit">>
        /\ (pp.inner.mode = "ChosenExit") =>
              /\ pp.ret.k = "Ok" => pp.ret.path.hops[3] = pp.inner.relay
              /\ pp.ret.msg # "No exit relay found"
              /\ \A i \in 1..Len(pp.sampled) : pp.sampled[i].role # "Exit"

\* Both ports were wanted, one relay allows only one of them, and the exit
\* that was picked allows both.
C15_Witness ==
    /\ pp.pc = "returned"
    /\ pp.ret.k = "Ok"
    /\ pp.inner.mode = "WantsPorts"
    /\ pp.inner.ports = Ports
    /\ \E r \in Relays : pp.netdir.policy[r] = {443}

\* C16: pick_path on a fallback directory set fails with NeedConsensus in
\* both modes, before any relay is sampled, and never returns a path.
C16_FallbacksNeedConsensus ==
    (pp.pc = "returned" /\ pp.netdir.kind = "Fallbacks") =>
        /\ pp.ret = PathErr("NeedConsensus", "")
        /\ pp.sampled = <<>>

\* pick_path has returned on fallbacks with a chosen exit.
C16_Witness ==
    /\ pp.pc = "returned"
    /\ pp.netdir.kind = "Fallbacks"
    /\ pp.inner.mode = "ChosenExit"
    /\ pp.ret.e = "NeedConsensus"

\* The handshakes build_circuit has issued, in order.
Handshakes ==
    SelectSeq(bc.log, LAMBDA c : c.op \in {"create_firsthop_fast",
                                           "create_firsthop_ntor",
                                           "extend_ntor"})

\* C17: for OneHop and FallbackOneHop exactly one create-fast handshake and
\* no extend; for a multi-hop path one ntor create with h0 then extend_ntor
\* with h1..hk in list order, each started only after the previous one
\* succeeded. The first handshake that fails ends construction: no later
\* handshake is issued, the error is returned and no circuit is returned.
C17_HandshakesFollowPath ==
    (bc.pc # "off") =>
        LET H == Handshakes
            hops == bc.path.hops
            want == IF bc.path.variant = "Path" THEN Len(hops) ELSE 1
        IN  /\ Len(H) <= want
            /\ \A i \in 1..Len(H) :
                  /\ IF bc.path.variant = "Path"
                     THEN /\ H[i].hop = hops[i]
                          /\ H[i].op = IF i = 1 THEN "create_firsthop_ntor"
                                                ELSE "extend_ntor"
                     ELSE H[i].op = "create_firsthop_fast"
                  /\ i < Len(H) => H[i].res = "ok"
                  /\ H[i].res = "err" => bc.pc = "returned" /\ bc.ret.k = "Err"
                  /\ H[i].res = "pending" => bc.pc \in {"create", "extend"}
            /\ (bc.pc = "returned" /\ bc.ret.k = "Ok") =>
                  /\ Len(H) = want
                  /\ \A i \in 1..Len(H) : H[i].res = "ok"

\* The second of three handshakes failed and nothing was issued after it.
C17_Witness ==
    /\ bc.pc = "returned"
    /\ bc.ret.k = "Err"
    /\ bc.path.variant = "Path"
    /\ Len(bc.path.hops) = 3
    /\ Len(Handshakes) = 2
    /\ Handshakes[2] = [op |-> "extend_ntor", hop |-> bc.path.hops[2], res |-> "err"]

\* C18: a multi-hop path with an empty relay list has no first hop:
\* first_hop yields NoRelays("Path with no entries!"), and build_circuit
\* returns that error before any channel is requested, any pending circuit is
\* created or any reactor is spawned; the first-hop indexing is never reached.
C18_EmptyPathNoRelays ==
    (bc.pc # "off" /\ bc.path.variant = "Path" /\ bc.path.hops = <<>>) =>
        /\ first_hop(bc.path).k = "Err"
        /\ first_hop(bc.path).e = "NoRelays"
        /\ first_hop(bc.path).msg = "Path with no entries!"
        /\ bc.log = <<>>
        /\ bc.pc \in {"start", "returned"}
        /\ bc.pc = "returned" => bc.ret = BuildErr("NoRelays", "Path with no entries!")

\* build_circuit has returned on an empty multi-hop path.
C18_Witness ==
    /\ bc.pc = "returned"
    /\ bc.path.variant = "Path"
    /\ bc.path.hops = <<>>
    /\ bc.ret.e = "NoRelays"

\* Total encoded width of the first n of the items.
RECURSIVE WidthOf(_, _)
WidthOf(items, n) ==
    IF n = 0 THEN 0 ELSE WidthOf(items, n - 1) + Width(items[n].ty)

\* C19: the primitive codec round-trips: for u8..u128 (big-endian), IPv4
\* (192.0.2.1 encodes as C0 00 02 01), IPv6 and byte arrays of length 16, 20
\* and 32, reading back what was written yields the same value, and writing
\* v1..vn then reading n items in order yields the same sequence with the
\* reader consuming exactly the bytes written.
C19_CodecRoundTrips ==
    (cd.pc # "off") =>
        /\ ~cd.err
        /\ Len(cd.buf) = WidthOf(cd.items, cd.written)
        /\ Len(cd.out) <= Len(cd.items)
        /\ \A i \in 1..Len(cd.out) : cd.out[i] = cd.items[i]
        /\ cd.reader.off = WidthOf(cd.items, Len(cd.out))
        /\ (cd.pc = "read" /\ Len(cd.out) = Len(cd.items)) =>
              /\ cd.out = cd.items
              /\ cd.reader.off = Len(cd.buf)
        /\ (cd.written >= 1 /\ cd.items[1] = [ty |-> "Ipv4Addr", v |-> <<192, 0, 2, 1>>]) =>
              SubSeq(cd.buf, 1, 4) = <<192, 0, 2, 1>>
        /\ (cd.written >= 1 /\ cd.items[1] = [ty |-> "u16", v |-> <<2, 1>>]) =>
              SubSeq(cd.buf, 1, 2) = <<1, 2>>
        /\ (cd.written >= 1 /\ cd.items[1] = [ty |-> "u32", v |-> <<4, 3, 2, 1>>]) =>
              SubSeq(cd.buf, 1, 4) = <<1, 2, 3, 4>>

\* 192.0.2.1 and a u32 were written as C0 00 02 01 01 02 03 04 and both
\* were read back.
C19_Witness ==
    /\ cd.pc = "read"
    /\ cd.items = <<[ty |-> "Ipv4Addr", v |-> <<192, 0, 2, 1>>],
                    [ty |-> "u32", v |-> <<4, 3, 2, 1>>]>>
    /\ cd.buf = <<192, 0, 2, 1, 1, 2, 3, 4>>
    /\ cd.out = cd.items
    /\ cd.reader.off = 8

\* C20 (as claimed): when a take parked on window = 0 has been abandoned by
\* its caller, leaving a stale sender in unblock, and no put has been accepted
\* since, the next take that finds window = 0 tolerates the stale sender: it
\* installs a fresh notifier and parks, without an assertion failure.
C20_StaleSenderTolerated ==
    [][(/\ last.op = "drop"
        /\ unblock = StaleSender
        /\ window = 0
        /\ last'.op = "take") =>
           /\ last'.ret.k = "parked"
           /\ unblock' = Sender(last'.t)
           /\ st'[last'.t] = "pending"]_vars

\* C21 (as claimed): a take suspended on window = 0 is released not only when
\* credit arrives but also when every other handle to the window has gone
\* away: it does not stay suspended forever once no put can ever arrive.
C21_ParkedTakeReleasedOnTeardown ==
    \A t \in Takers :
        (st[t] = "pending" /\ handles = {t}) ~> (st[t] # "pending")

\* C22: in every execution of build_circuit the steps occur in the order
\* get_or_launch, new_circ, spawn of the reactor, first handshake. The reactor
\* is spawned exactly once whenever new_circ succeeded and never when
\* get_or_launch or new_circ failed, and a later handshake failure or the
\* abandonment of build_circuit does not tear it down.
C22_ReactorSpawnedOnceInOrder ==
    (bc.pc # "off") =>
        LET log == bc.log
            n == Len(log)
        IN  /\ n >= 1 => log[1].op = "get_or_launch"
            /\ n >= 2 => log[1].res = "ok" /\ log[2].op = "new_circ"
            /\ n >= 3 => log[2].res = "ok" /\ log[3] = [Call("spawn", NoRelay) EXCEPT !.res = "ok"]
            /\ n >= 4 => log[4].op \in {"create_firsthop_fast", "create_firsthop_ntor"}
            /\ \A i \in 5..n : log[i].op = "extend_ntor"
            /\ (n >= 2 /\ log[2].res = "ok") => n >= 4
            /\ bc.reactors = IF n >= 3 THEN 1 ELSE 0

\* build_circuit was abandoned during an extend handshake and the reactor it
\* spawned is still running.
C22_Witness ==
    /\ bc.pc = "dropped"
    /\ bc.path.variant = "Path"
    /\ Len(bc.path.hops) >= 2
    /\ bc.reactors = 1
    /\ bc.log[Len(bc.log)] = [op |-> "extend_ntor", hop |-> bc.path.hops[2],
                              res |-> "dropped"]

\* C23: if a parked take was abandoned, a later put with an acceptable tag
\* still succeeds: failing to fire the stale notifier is ignored, window is
\* raised by increment, unblock is left None, Some(new window) is returned,
\* and a subsequent take proceeds normally without suspending.
C23_PutIgnoresStaleSender ==
    /\ [][(unblock = StaleSender /\ last'.op = "put" /\ tag_ok(tags, last'.tag)) =>
            /\ window' = window + increment(P)
            /\ tags' = Tail(tags)
            /\ unblock' = NoSender
            /\ st' = st
            /\ last'.t = SendFailed
            /\ last'.ret = Ret("some", window')]_vars
    /\ [][(/\ last.op = "put"
           /\ last.t = SendFailed
           /\ last.ret.k = "some"
           /\ last'.op = "take") =>
            /\ last'.ret = Ret("val", window - 1)
            /\ window' = window - 1
            /\ unblock' = NoSender
            /\ st'[last'.t] = "idle"]_vars

\* A put has just been accepted whose send found the receiver gone.
C23_Witness ==
    /\ last.op = "put"
    /\ last.t = SendFailed
    /\ last.ret = Ret("some", increment(P))
    /\ unblock = NoSender
    /\ \A t \in Takers : st[t] = "idle"

\* window rounded up to the next multiple of increment.
RoundUp(w, p) == ((w + increment(p) - 1) \div increment(p)) * increment(p)

\* Cells the sender may still send or has an outstanding tag for.
Credit(w, q, p) == RoundUp(w, p) + increment(p) * Len(q)

\* C24: for a window created with a multiple of increment, in every state
\* reached by takes and accepted puts (no put rejected so far), window rounded
\* up to the next multiple of increment plus increment * tags.len() equals the
\* initial window; a rejected put is the only step that loses credit.
C24_CreditConserved ==
    /\ []((initial % increment(P) = 0 /\ ~hist.rejected) =>
            Credit(window, tags, P) = initial)
    /\ [][(Credit(window', tags', P) # Credit(window, tags, P)) =>
            /\ last'.op = "put"
            /\ last'.ret.k = "none"
            /\ Credit(window', tags', P) = Credit(window, tags, P) - increment(P)]_vars

\* After a full window and one accepted SENDME the sender is part-way through
\* the returned credit, with tags still outstanding.
C24_Witness ==
    /\ initial = maximum(P)
    /\ hist.put
    /\ ~hist.rejected
    /\ Len(tags) >= 1
    /\ window > 0
    /\ window % increment(P) # 0

\* C25: no lost wake-up between take and put on different handles: if a take
\* has installed its notifier and released the lock but has not yet started
\* waiting on the receiver, and an accepted put runs in that gap, the take
\* still observes the notification when it waits, retries and returns; there
\* is no reachable state with window > 0, unblock = None and a take suspended.
C25_NoLostWakeup ==
    /\ [][\A t \in Takers :
            (/\ unblock = Sender(t)
             /\ t \notin waker
             /\ last'.op = "put"
             /\ last'.ret.k = "some") => st'[t] = "sent"]_vars
    /\ [](~(window > 0 /\ unblock = NoSender /\ \E t \in Takers : st[t] = "pending"))
    /\ \A t \in Takers :
          (st[t] = "sent" /\ t \notin waker) ~>
              (last.op = "retry" /\ last.t = t /\ last.ret.k = "val" /\ st[t] = "idle")

\* An accepted put has run before the parked take first polled its receiver.
C25_Witness ==
    /\ last.op = "put"
    /\ last.ret.k = "some"
    /\ st[1] = "sent"
    /\ 1 \notin waker
    /\ window > 0

\* C26: with both windows started at P::maximum() and joined by
\* order-preserving channels, the receiver's take returns Some(true) for a
\* cell exactly when the sender's take recorded that cell's tag, it never
\* returns None, and no SENDME's put is rejected.
C26_WindowsAgree ==
    chan.pc = "link" =>
        /\ chan.got > 0 => ((chan.ret = "some_true") <=> chan.rec)
        /\ chan.ret # "none"
        /\ rw.ret # "none"
        /\ ~hist.rejected

\* The sender has filled its window, a SENDME has reopened it, and the
\* cell that took the receiver's window to a multiple of the increment is
\* the one whose tag the sender recorded.
C26_Witness ==
    /\ chan.pc = "link"
    /\ chan.got = maximum(P)
    /\ chan.ret = "some_true"
    /\ chan.rec
    /\ hist.put
    /\ sent > maximum(P)

====
